---- MODULE Spec2Model ----
(***************************************************************************)
(* RemoteLogger (src/libraries/RemoteLogger/RemoteLogger.cpp): the SD-card *)
(* backed sample/hour counters and the Iridium message builder prep_msg.   *)
(*                                                                         *)
(* Strings are sequences of tokens.  A token is one character, except that *)
(* a column name, a numeric CSV field and a timestamp field are kept as    *)
(* one token each; "," is always a token of its own, so that the comma     *)
(* counting and splitting of the code is computed, not assumed.            *)
(***************************************************************************)
EXTENDS Integers, Sequences, FiniteSets, TLC

VARIABLES
    myHeader,   \* RemoteLogger::myHeader, the CSV header given at construction
    sd,         \* the SD card: file name -> [exists, lines]
    lastOp,     \* the member function that ran last
    outcome,    \* "void", "returned" or "fault" (the call never returned)
    retInt,     \* value returned by num_samples / num_hours
    retMsg,     \* String returned by prep_msg
    rowsBefore, \* history: data rows per file before the last call
    written,    \* history: data lines stored per file since its last removal
    failed,     \* history: files with a failed open since their last removal
    pin,        \* level of IridSlpPin, the sleep pin of the modem
    calls,      \* what the last send_msg / irid_test did, in order
    retErr      \* value returned by send_msg

vars ==
    <<myHeader, sd, lastOp, outcome, retInt, retMsg, rowsBefore, written, failed,
      pin, calls, retErr>>

\* the part of the state the telemetry functions work on, and the rest
telemetry == <<pin, calls, retErr>>

storage == <<myHeader, sd, retInt, retMsg, rowsBefore, written, failed>>

(***************************************************************************)
(* Bounds of the model.                                                    *)
(***************************************************************************)
MaxSamples == 3     \* data lines kept in /TRACKING.csv
MaxHours == 2       \* data lines kept in /HOURLY.csv
MaxData == 1        \* data lines kept in /DATA.csv

TRACKING == "/TRACKING.csv"
DATA == "/DATA.csv"
HOURLY == "/HOURLY.csv"
Files == {TRACKING, DATA, HOURLY}

Cap(f) == IF f = TRACKING THEN MaxSamples ELSE IF f = HOURLY THEN MaxHours ELSE MaxData

NoFile == [exists |-> FALSE, lines |-> <<>>]

(***************************************************************************)
(* Arduino String helpers (0-based positions, as in the code).             *)
(***************************************************************************)
RECURSIVE indexOf(_, _, _)
indexOf(s, tok, from) ==
    IF from >= Len(s) THEN -1
    ELSE IF s[from + 1] = tok THEN from
    ELSE indexOf(s, tok, from + 1)

\* String::substring(left, right): right exclusive, clipped to the length;
\* the one-argument form and an index of -1 (unsigned wrap) read to the end.
substring(s, left, right) ==
    LET r == IF right < 0 \/ right > Len(s) THEN Len(s) ELSE right
    IN  IF left >= Len(s) \/ left >= r THEN <<>> ELSE SubSeq(s, left + 1, r)

(***************************************************************************)
(* Headers a logger is constructed with.                                   *)
(***************************************************************************)
DefaultHeader ==
    <<"datetime", ",", "batt_v", ",", "memory", ",", "water_level_mm", ",",
      "water_temp_c", ",", "water_ec_dcm">>

ThreeColumnHeader == <<"datetime", ",", "batt_v", ",", "memory">>

UnknownColumnHeader ==
    <<"datetime", ",", "batt_v", ",", "memory", ",", "water_level_mm", ",", "turbidity">>

HeaderChoices == {DefaultHeader, ThreeColumnHeader, UnknownColumnHeader}

(***************************************************************************)
(* count_params: number of comma separated names in myHeader.              *)
(***************************************************************************)
RECURSIVE CountFrom(_, _, _)
CountFrom(h, index, ctr) ==
    IF index = -1 THEN ctr
    ELSE CountFrom(h, indexOf(h, ",", index + 1), ctr + 1)

count_params(h) ==
    IF Len(h) < 1 THEN 0 ELSE CountFrom(h, indexOf(h, ",", 0), 1)

\* `delete &delim` in count_params frees an object on the stack: the call
\* either comes back with ctr or the device faults and restarts.
StackDeleteOutcomes == {"returns", "fault"}

(***************************************************************************)
(* The lines the sketch stores: field tokens of two sample rows, cut to    *)
(* the number of columns of the header.                                    *)
(***************************************************************************)
SampleFields ==
    << <<"2001-01-10T01:11:05", "4.31", "24627", "10", "18.7", "3">>,
       <<"2024-06-04T13:45:30", "3.95", "20000", "-9", "20.25", "0">> >>

RECURSIVE JoinComma(_)
JoinComma(fs) ==
    IF Len(fs) = 0 THEN <<>>
    ELSE IF Len(fs) = 1 THEN <<fs[1]>>
    ELSE <<fs[1], ",">> \o JoinComma(Tail(fs))

SampleRow(h, i) == JoinComma(SubSeq(SampleFields[i], 1, count_params(h)))

RowsFor(h) == { SampleRow(h, i) : i \in 1..Len(SampleFields) }

\* write_to_csv without the `if (dataFile)` tests: the lines are stored even
\* when SD.open failed
write_to_csv_unchecked(card, header, datastring_for_csv, outname, opened) ==
    IF ~card[outname].exists
    THEN [card EXCEPT ![outname] =
             [exists |-> TRUE, lines |-> <<header, datastring_for_csv>>]]
    ELSE [card EXCEPT ![outname].lines = Append(@, datastring_for_csv)]

\* write_to_csv without the SD.exists test: the header goes in front of
\* every data line
write_to_csv_header_always(card, header, datastring_for_csv, outname, opened) ==
    IF ~opened THEN card
    ELSE [card EXCEPT ![outname] =
             [exists |-> TRUE,
              lines |-> card[outname].lines \o <<header, datastring_for_csv>>]]

(***************************************************************************)
(* write_to_csv: header and data on a new file, data only on an old one;   *)
(* nothing when SD.open fails (opened = FALSE).                            *)
(***************************************************************************)
write_to_csv(card, header, datastring_for_csv, outname, opened) ==
    IF ~card[outname].exists
    THEN IF opened
         THEN [card EXCEPT ![outname] =
                  [exists |-> TRUE, lines |-> <<header, datastring_for_csv>>]]
         ELSE card
    ELSE IF opened
         THEN [card EXCEPT ![outname].lines = Append(@, datastring_for_csv)]
         ELSE card

\* a removal that only empties the file
remove_truncating(card, name) ==
    [card EXCEPT ![name] = [exists |-> TRUE, lines |-> <<>>]]

\* SD.remove: the file is gone afterwards, whether or not it was there
remove(card, name) == [card EXCEPT ![name] = NoFile]

(***************************************************************************)
(* CSV_Parser(format, has_header = true, ','): readSDfile leaves the       *)
(* parser empty when the file cannot be opened; the first line is the      *)
(* header and getRowsCount counts the lines after it, the rows prep_msg    *)
(* indexes with 0 .. num_rows-1.                                           *)
(***************************************************************************)
readSDfile(card, name) ==
    IF card[name].exists /\ Len(card[name].lines) >= 1
    THEN Tail(card[name].lines)
    ELSE <<>>

getRowsCount(rows) == Len(rows)

RowCounts(card) == [f \in Files |-> getRowsCount(readSDfile(card, f))]

num_samples(card) == getRowsCount(readSDfile(card, TRACKING)) - 1

num_hours(card) == getRowsCount(readSDfile(card, HOURLY))

(***************************************************************************)
(* The header dictionary of RemoteLogger.h: column name, letter code and   *)
(* multiplier (a fraction num/den) at the same position of three tables.   *)
(* Positions are 0-based as in the code: table[i + 1] is entry i.          *)
(***************************************************************************)
TOTAL_KEYS == 6

HEADERS ==
    << <<"water_level_mm">>, <<"water_temp_c">>, <<"water_ec_dcm">>,
       <<"batt_v">>, <<"memory">>, <<"datetime">> >>

LETTERS == <<"A", "B", "C", "D", "E", "F">>

MULTIPLIERS ==
    << [num |-> 1, den |-> 1], [num |-> 10, den |-> 1], [num |-> 1, den |-> 1],
       [num |-> 100, den |-> 1], [num |-> 1, den |-> 100], [num |-> 1, den |-> 1] >>

RECURSIVE FindFrom(_, _)
FindFrom(key, i) ==
    IF i >= TOTAL_KEYS THEN -1
    ELSE IF HEADERS[i + 1] = key THEN i
    ELSE FindFrom(key, i + 1)

find_key(key) == FindFrom(key, 0)

(***************************************************************************)
(* populate_header_index: the dictionary position of each column name, in  *)
(* header order (entry column + 1 is column `column`).                     *)
(***************************************************************************)
RECURSIVE PopulateFrom(_, _, _, _)
PopulateFrom(h, num_params, column, prevIndex) ==
    IF column >= num_params - 1
    THEN <<find_key(substring(h, prevIndex + 1, -1))>>
    ELSE LET index == indexOf(h, ",", prevIndex + 1)
         IN  <<find_key(substring(h, prevIndex + 1, index))>>
                 \o PopulateFrom(h, num_params, column + 1, index)

populate_header_index(h, num_params) == PopulateFrom(h, num_params, 0, -1)

(***************************************************************************)
(* prep_msg declares `int **headerIndex` and never gives it storage: every *)
(* `*headerIndex[i]` goes through an uninitialised pointer.  The values    *)
(* read back are one of: what populate_header_index stored (the cells are  *)
(* distinct writable words), the last value stored (the cells are one      *)
(* word), or one foreign word (the stores are lost: cleared RAM reads 0,   *)
(* erased flash reads -1); or the access faults.  An index outside the     *)
(* tables reads foreign memory.                                            *)
(***************************************************************************)
WildPointerOutcomes == {"reads", "fault"}

ForeignWords == {-1, 0}

HeaderIndexReads(h) ==
    LET n == count_params(h)
        stored == populate_header_index(h, n)
    IN  {stored}
          \cup {[column \in 1..n |-> stored[n]]}
          \cup {[column \in 1..n |-> c] : c \in ForeignWords}

\* what a read outside an array can give: a letter, a multiplier, a C string
\* and a float (in hundredths)
ForeignMemory ==
    { [letter |-> "?", mult |-> [num |-> 0, den |-> 1], str |-> <<>>, val |-> 0],
      [letter |-> ":", mult |-> [num |-> 3, den |-> 1],
       str |-> <<"x", "x", "x", "x", "x", "x", "x", "x", "x", "x", "x", "x", "x">>,
       val |-> -12345] }

InTable(i) == i >= 0 /\ i < TOTAL_KEYS

Letter(i, mem) == IF InTable(i) THEN LETTERS[i + 1] ELSE mem.letter

Multiplier(i, mem) == IF InTable(i) THEN MULTIPLIERS[i + 1] ELSE mem.mult

(***************************************************************************)
(* CSV_Parser columns: field `column` of a data line, as the C string of   *)
(* an "s" column or the float of an "f" column (kept in hundredths).       *)
(***************************************************************************)
RECURSIVE Field(_, _, _)
Field(line, column, from) ==
    LET index == indexOf(line, ",", from)
    IN  IF column = 0 THEN substring(line, from, index)
        ELSE IF index = -1 THEN <<>>
        ELSE Field(line, column - 1, index + 1)

Chars ==
    ("2001-01-10T01:11:05" :>
        <<"2", "0", "0", "1", "-", "0", "1", "-", "1", "0", "T",
          "0", "1", ":", "1", "1", ":", "0", "5">>)
    @@ ("2024-06-04T13:45:30" :>
        <<"2", "0", "2", "4", "-", "0", "6", "-", "0", "4", "T",
          "1", "3", ":", "4", "5", ":", "3", "0">>)

Hundredths ==
    ("4.31" :> 431) @@ ("24627" :> 2462700) @@ ("10" :> 1000)
    @@ ("18.7" :> 1870) @@ ("3" :> 300) @@ ("3.95" :> 395)
    @@ ("20000" :> 2000000) @@ ("-9" :> -900) @@ ("20.25" :> 2025)
    @@ ("0" :> 0)

\* cp[column][row] of an "s" column; row 0 of an empty column is foreign memory
StringCell(rows, column, row, mem) ==
    IF row >= 0 /\ row < Len(rows)
    THEN LET f == Field(rows[row + 1], column, 0)
         IN  IF Len(f) = 1 /\ f[1] \in DOMAIN Chars THEN Chars[f[1]] ELSE <<>>
    ELSE mem.str

\* cp[column][row] of an "f" column; row -1 is foreign memory
FloatCell(rows, column, row, mem) ==
    IF row >= 0 /\ row < Len(rows)
    THEN LET f == Field(rows[row + 1], column, 0)
         IN  IF Len(f) = 1 /\ f[1] \in DOMAIN Hundredths THEN Hundredths[f[1]] ELSE 0
    ELSE mem.val

(***************************************************************************)
(* round(value * multiplier) and String(long).                             *)
(***************************************************************************)
\* Arduino round(x): (long)(x + 0.5) for x >= 0, (long)(x - 0.5) otherwise,
\* here for x = a / b with b > 0
RoundDiv(a, b) ==
    IF a >= 0 THEN (2 * a + b) \div (2 * b)
    ELSE 0 - ((2 * (0 - a) + b) \div (2 * b))

Scaled(hundredths, m) == RoundDiv(hundredths * m.num, 100 * m.den)

Digit == <<"0", "1", "2", "3", "4", "5", "6", "7", "8", "9">>

RECURSIVE Digits(_)
Digits(n) ==
    IF n < 10 THEN <<Digit[n + 1]>>
    ELSE Append(Digits(n \div 10), Digit[(n % 10) + 1])

StringOfLong(n) == IF n < 0 THEN <<"-">> \o Digits(0 - n) ELSE Digits(n)

(***************************************************************************)
(* prep_msg, in the order the code appends to datastring_msg.  `hi` is     *)
(* what the reads of *headerIndex[column] give, `mem` what reads outside   *)
(* an array give.                                                          *)
(***************************************************************************)
RECURSIVE LetterPrefix(_, _, _, _)
LetterPrefix(hi, mem, i, num_params) ==
    IF i >= num_params THEN <<>>
    ELSE <<Letter(hi[i + 1], mem)>> \o LetterPrefix(hi, mem, i + 1, num_params)

\* the timestamp taken from the most recent row instead of the first
CompactTimestampOfLastRow(rows, mem) ==
    LET t == StringCell(rows, 0, getRowsCount(rows) - 1, mem)
    IN  substring(t, 2, 4) \o substring(t, 5, 7)
            \o substring(t, 8, 10) \o substring(t, 11, 13)

CompactTimestamp(rows, mem) ==
    LET t == StringCell(rows, 0, 0, mem)
    IN  substring(t, 2, 4) \o substring(t, 5, 7)
            \o substring(t, 8, 10) \o substring(t, 11, 13)

\* battery (column 1) and memory (column 2) of row num_rows - 1
MostRecent(rows, column, hi, mem) ==
    StringOfLong(Scaled(FloatCell(rows, column, getRowsCount(rows) - 1, mem),
                        Multiplier(hi[column + 1], mem)))

RECURSIVE RowSection(_, _, _, _, _, _)
RowSection(rows, row, column, num_params, hi, mem) ==
    IF column >= num_params THEN <<>>
    ELSE StringOfLong(Scaled(FloatCell(rows, column, row, mem),
                             Multiplier(hi[column + 1], mem)))
           \o (IF column # num_params - 1 THEN <<",">> ELSE <<":">>)
           \o RowSection(rows, row, column + 1, num_params, hi, mem)

RECURSIVE SampledData(_, _, _, _, _)
SampledData(rows, row, num_params, hi, mem) ==
    IF row >= getRowsCount(rows) THEN <<>>
    ELSE RowSection(rows, row, 3, num_params, hi, mem)
           \o SampledData(rows, row + 1, num_params, hi, mem)

prep_msg(h, card, hi, mem) ==
    LET num_params == count_params(h)
        rows == readSDfile(card, HOURLY)
    IN  LetterPrefix(hi, mem, 0, num_params) \o <<":">>
          \o CompactTimestamp(rows, mem) \o <<":">>
          \o MostRecent(rows, 1, hi, mem) \o <<":">>
          \o MostRecent(rows, 2, hi, mem) \o <<":">>
          \o SampledData(rows, 0, num_params, hi, mem)

(***************************************************************************)
(* State machine.                                                          *)
(***************************************************************************)
Init ==
    /\ myHeader \in HeaderChoices
    /\ sd = [f \in Files |-> NoFile]
    /\ lastOp = "begin"
    /\ outcome = "void"
    /\ retInt = 0
    /\ retMsg = <<>>
    /\ rowsBefore = RowCounts(sd)
    /\ written = [f \in Files |-> <<>>]
    /\ failed = {}
    /\ pin = "LOW"
    /\ calls = <<>>
    /\ retErr = "ISBD_SUCCESS"

\* bookkeeping shared by the calls that return nothing
Void(op) ==
    /\ lastOp' = op
    /\ outcome' = "void"
    /\ retInt' = 0
    /\ retMsg' = <<>>
    /\ rowsBefore' = RowCounts(sd)
    /\ UNCHANGED telemetry

Store(header, line, name, opened) ==
    /\ Len(written[name]) + (IF name \in failed THEN 1 ELSE 0) < Cap(name)
    /\ sd' = write_to_csv(sd, header, line, name, opened)
    /\ written' = IF opened THEN [written EXCEPT ![name] = Append(@, line)] ELSE written
    /\ failed' = IF opened THEN failed ELSE failed \cup {name}
    /\ UNCHANGED myHeader

\* bookkeeping of a call that left `card` behind after removing `names`
Removed(card, names) ==
    /\ sd' = card
    /\ written' = [f \in Files |-> IF f \in names THEN <<>> ELSE written[f]]
    /\ failed' = failed \ names
    /\ UNCHANGED myHeader

increment_samples ==
    \E opened \in BOOLEAN :
        /\ Store(<<"n">>, <<"1">>, TRACKING, opened)
        /\ Void("increment_samples")

\* the sketch appending a sample row to the queue or to the data log
write_hourly ==
    \E row \in RowsFor(myHeader), opened \in BOOLEAN :
        /\ Store(myHeader, row, HOURLY, opened)
        /\ Void("write_hourly")

write_data ==
    \E opened \in BOOLEAN :
        /\ Store(myHeader, SampleRow(myHeader, 1), DATA, opened)
        /\ Void("write_data")

NumSamples ==
    /\ lastOp' = "num_samples"
    /\ outcome' = "returned"
    /\ retInt' = num_samples(sd)
    /\ retMsg' = <<>>
    /\ rowsBefore' = RowCounts(sd)
    /\ UNCHANGED <<myHeader, sd, written, failed>>
    /\ UNCHANGED telemetry

NumHours ==
    \E u \in StackDeleteOutcomes :
        /\ lastOp' = "num_hours"
        /\ outcome' = IF u = "fault" THEN "fault" ELSE "returned"
        /\ retInt' = IF u = "fault" THEN 0 ELSE num_hours(sd)
        /\ retMsg' = <<>>
        /\ rowsBefore' = RowCounts(sd)
        /\ UNCHANGED <<myHeader, sd, written, failed>>
        /\ UNCHANGED telemetry

reset_sample_counter ==
    /\ Removed(remove(sd, TRACKING), {TRACKING})
    /\ Void("reset_sample_counter")

reset_hourly ==
    /\ Removed(remove(sd, HOURLY), {HOURLY})
    /\ Void("reset_hourly")

wipe_files ==
    /\ Removed(remove(remove(remove(sd, TRACKING), DATA), HOURLY), Files)
    /\ Void("wipe_files")

\* a prep_msg that empties the queue it has encoded
PrepMsgConsuming(deletes, accesses, reads) ==
    \E hi \in reads, mem \in ForeignMemory :
        /\ lastOp' = "prep_msg"
        /\ retInt' = 0
        /\ rowsBefore' = RowCounts(sd)
        /\ outcome' = "returned"
        /\ retMsg' = prep_msg(myHeader, sd, hi, mem)
        /\ sd' = remove(sd, HOURLY)
        /\ UNCHANGED <<myHeader, written, failed>>
        /\ UNCHANGED telemetry

\* prep_msg with the outcomes of its undefined accesses drawn from the sets given
PrepMsgWith(deletes, accesses, reads) ==
    \E u \in deletes, w \in accesses :
        /\ lastOp' = "prep_msg"
        /\ retInt' = 0
        /\ rowsBefore' = RowCounts(sd)
        /\ UNCHANGED <<myHeader, sd, written, failed>>
        /\ UNCHANGED telemetry
        /\ IF u = "fault" \/ w = "fault"
           THEN outcome' = "fault" /\ retMsg' = <<>>
           ELSE \E hi \in reads, mem \in ForeignMemory :
                    /\ outcome' = "returned"
                    /\ retMsg' = prep_msg(myHeader, sd, hi, mem)

PrepMsg ==
    PrepMsgWith(StackDeleteOutcomes, WildPointerOutcomes, HeaderIndexReads(myHeader))

\* the runs in which nothing faults and headerIndex reads back what was stored
PrepMsgAsStored ==
    PrepMsgWith({"returns"}, {"reads"},
                {populate_header_index(myHeader, count_params(myHeader))})

Next ==
    \/ increment_samples
    \/ write_hourly
    \/ write_data
    \/ NumSamples
    \/ NumHours
    \/ reset_sample_counter
    \/ reset_hourly
    \/ wipe_files
    \/ PrepMsg

Spec == Init /\ [][Next]_vars

\* the behaviours of Spec in which prep_msg meets no fault and no lost store
NextAsStored ==
    \/ increment_samples
    \/ write_hourly
    \/ write_data
    \/ NumSamples
    \/ NumHours
    \/ reset_sample_counter
    \/ reset_hourly
    \/ wipe_files
    \/ PrepMsgAsStored

SpecAsStored == Init /\ [][NextAsStored]_vars

\* ---------------------------------------------------------------------------
\* Telemetry: the Iridium modem behind IridSlpPin, and the real-time clock.

ISBD_SUCCESS == "ISBD_SUCCESS"

ISBD_IS_ASLEEP == "ISBD_IS_ASLEEP"

ISBD_SENDRECEIVE_TIMEOUT == "ISBD_SENDRECEIVE_TIMEOUT"

\* what a modem call can answer
Codes == {ISBD_SUCCESS, ISBD_IS_ASLEEP, ISBD_SENDRECEIVE_TIMEOUT}

Failures == Codes \ {ISBD_SUCCESS}

\* what rtc.now() can read: noon of a day divisible by five, noon of another
\* day, another hour of a day divisible by five
ClockReadings == {[hour |-> 12, day |-> 5], [hour |-> 12, day |-> 4], [hour |-> 11, day |-> 5]}

Messages == {<<>>, <<"AB:23120113:410:98:">>}

\* the loop bound of irid_test: "test signal quality 10 times"
SignalQueries == 10

\* one thing a function did: a call, what it was given, what it answered
Did(call, arg, res) == [call |-> call, arg |-> arg, res |-> res]

digitalWrite(level) == Did("digitalWrite", level, "")

PowerUp ==
    << digitalWrite("HIGH"), Did("IridiumSerial.begin", "", ""),
       Did("setPowerProfile", "", "") >>

Repeat(n, e) == [i \in 1..n |-> e]

\* sync_clock(): the clock is adjusted only when the modem gave the time
sync_clock(err_time) ==
    <<Did("getSystemTime", "", err_time)>>
        \o (IF err_time = ISBD_SUCCESS THEN <<Did("rtc.adjust", "", "")>> ELSE <<>>)

\* send_msg as it would be if it reported the first attempt
send_msg_first_attempt(my_msg, b1, b2, s1, b3, s2, now, err_time) ==
    [ log |-> PowerUp
                \o <<Did("begin", "", b1)>>
                \o (IF b1 = ISBD_IS_ASLEEP THEN <<Did("begin", "", b2)>> ELSE <<>>)
                \o <<Did("sendSBDText", my_msg, s1)>>
                \o (IF s1 # ISBD_SUCCESS
                    THEN <<Did("begin", "", b3), Did("sendSBDText", my_msg, s2)>>
                    ELSE <<>>)
                \o (IF now.hour = 12 /\ now.day % 5 = 0 THEN sync_clock(err_time) ELSE <<>>)
                \o <<digitalWrite("LOW")>>,
      err |-> s1 ]

\* send_msg(my_msg): b1, b2, b3 are the answers of modem.begin, s1, s2 those
\* of sendSBDText, now is rtc.now(); gives what was done and the returned err
send_msg(my_msg, b1, b2, s1, b3, s2, now, err_time) ==
    [ log |-> PowerUp
                \o <<Did("begin", "", b1)>>
                \o (IF b1 = ISBD_IS_ASLEEP THEN <<Did("begin", "", b2)>> ELSE <<>>)
                \o <<Did("sendSBDText", my_msg, s1)>>
                \o (IF s1 # ISBD_SUCCESS
                    THEN <<Did("begin", "", b3), Did("sendSBDText", my_msg, s2)>>
                    ELSE <<>>)
                \o (IF now.hour = 12 /\ now.day % 5 = 0 THEN sync_clock(err_time) ELSE <<>>)
                \o <<digitalWrite("LOW")>>,
      err |-> IF s1 # ISBD_SUCCESS THEN s2 ELSE s1 ]

\* irid_test(msg): b and v are the answers of begin and getFirmwareVersion,
\* the first good signal-quality queries succeed and the next one, if the loop
\* gets to it, answers q; s is the answer of sendSBDText
irid_test(msg, b, v, good, q, s, err_time) ==
    LET started == PowerUp \o <<Did("begin", "", b)>>
        versioned == started \o <<Did("getFirmwareVersion", "", v)>>
        n == IF good < SignalQueries THEN good ELSE SignalQueries
        queried == versioned \o Repeat(n, Did("getSignalQuality", "", ISBD_SUCCESS))
    IN  IF b # ISBD_SUCCESS THEN started
        ELSE IF v # ISBD_SUCCESS THEN versioned
        ELSE IF n < SignalQueries THEN queried \o <<Did("getSignalQuality", "", q)>>
        ELSE queried \o <<Did("sendSBDText", <<"Hello world! ">> \o msg, s)>>
                     \o sync_clock(err_time)

\* the level the sleep pin is left at
PinAfter(log, before) ==
    LET writes == SelectSeq(log, LAMBDA e : e.call = "digitalWrite")
    IN  IF writes = <<>> THEN before ELSE writes[Len(writes)].arg

Telemetry(op, log) ==
    /\ lastOp' = op
    /\ calls' = log
    /\ pin' = PinAfter(log, pin)
    /\ UNCHANGED storage

\* an answer is drawn only for a call the run gets to
AnswerIf(reached) == IF reached THEN Codes ELSE {ISBD_SUCCESS}

TimeAnswerIf(reached) ==
    IF reached THEN {ISBD_SUCCESS, ISBD_SENDRECEIVE_TIMEOUT} ELSE {ISBD_SUCCESS}

SendMsg ==
    \E my_msg \in Messages, b1 \in Codes, s1 \in Codes, now \in ClockReadings :
    \E b2 \in AnswerIf(b1 = ISBD_IS_ASLEEP), b3 \in AnswerIf(s1 # ISBD_SUCCESS),
       s2 \in AnswerIf(s1 # ISBD_SUCCESS),
       err_time \in TimeAnswerIf(now.hour = 12 /\ now.day % 5 = 0) :
        LET run == send_msg(my_msg, b1, b2, s1, b3, s2, now, err_time)
        IN  /\ Telemetry("send_msg", run.log)
            /\ outcome' = "returned"
            /\ retErr' = run.err

IridTest ==
    \E msg \in Messages, b \in Codes :
    \E v \in AnswerIf(b = ISBD_SUCCESS) :
    \E good \in IF v = ISBD_SUCCESS /\ b = ISBD_SUCCESS THEN 0..SignalQueries ELSE {0} :
    \E q \in IF good < SignalQueries /\ v = ISBD_SUCCESS /\ b = ISBD_SUCCESS
              THEN Failures ELSE {ISBD_IS_ASLEEP},
       s \in AnswerIf(good = SignalQueries), err_time \in TimeAnswerIf(good = SignalQueries) :
        /\ Telemetry("irid_test", irid_test(msg, b, v, good, q, s, err_time))
        /\ outcome' = "void"
        /\ UNCHANGED retErr

NextTelemetry ==
    \/ SendMsg
    \/ IridTest

SpecTelemetry == Init /\ [][NextTelemetry]_vars

(***************************************************************************)
(* Shorthands for the properties.                                          *)
(***************************************************************************)
Returned(op) == lastOp = op /\ outcome = "returned"

\* calls of write_to_csv on f since f was last removed, when none failed
Stored(f) == Len(written[f])

(***************************************************************************)
(* Sample counter.                                                         *)
(***************************************************************************)
\* C1: starting from an absent /TRACKING.csv, after N calls of
\* increment_samples, none of them failing and no removal in between,
\* num_samples returns N.
C1_CountsIncrements ==
    (lastOp = "num_samples" /\ TRACKING \notin failed)
        => (outcome = "returned" /\ retInt = Stored(TRACKING))

\* C2: num_samples right after reset_sample_counter returns 0, and a missing
\* tracking file is always reported as 0, never as a negative count.
C2_ResetReadsZero ==
    [][ (lastOp' = "num_samples"
            /\ (lastOp = "reset_sample_counter" \/ ~sd'[TRACKING].exists))
        => (outcome' = "returned" /\ retInt' = 0) ]_vars

(***************************************************************************)
(* Hourly queue.                                                           *)
(***************************************************************************)
\* C3: after reset_hourly /HOURLY.csv does not exist, whatever it held, and
\* a num_hours call that follows it returns 0.
C3_ResetHourlyEmptiesQueue ==
    /\ [](lastOp = "reset_hourly"
            => (~sd[HOURLY].exists /\ readSDfile(sd, HOURLY) = <<>>))
    /\ [][ (lastOp = "reset_hourly" /\ lastOp' = "num_hours" /\ outcome' = "returned")
            => retInt' = 0 ]_vars

\* reset_hourly has just discarded a queue that held rows
C3_Witness ==
    /\ lastOp = "reset_hourly"
    /\ rowsBefore[HOURLY] > 0
    /\ ~sd[HOURLY].exists

\* C4: after k successful write_to_csv calls on /HOURLY.csv num_hours returns
\* k, the header line not counted, and num_samples counts the lines of
\* /TRACKING.csv by the same convention: equally long files give equal counts.
C4_SameCountingConvention ==
    /\ (Returned("num_hours") /\ HOURLY \notin failed) => retInt = Stored(HOURLY)
    /\ (Returned("num_samples") /\ failed = {} /\ Stored(HOURLY) = Stored(TRACKING))
            => retInt = num_hours(sd)

\* the num_hours half of C4 on its own: every call that returns gives the
\* number of rows stored
NumHoursCountsRows ==
    (Returned("num_hours") /\ HOURLY \notin failed) => retInt = Stored(HOURLY)

\* num_samples is one short of the number of increments
NumSamplesOneShort ==
    (lastOp = "num_samples" /\ TRACKING \notin failed)
        => (outcome = "returned" /\ retInt = Stored(TRACKING) - 1)

(***************************************************************************)
(* Message builder: what the properties expect, read off the header and    *)
(* the rows stored in /HOURLY.csv (oldest first).                          *)
(***************************************************************************)
NotComma(t) == t # ","

Columns(h) == SelectSeq(h, NotComma)

Known(name) == \E k \in 1..TOTAL_KEYS : HEADERS[k] = <<name>>

Entry(name) == CHOOSE k \in 1..TOTAL_KEYS : HEADERS[k] = <<name>>

Resolves(h) == \A i \in 1..Len(Columns(h)) : Known(Columns(h)[i])

Batch == written[HOURLY]

\* column `c` (0-based) of a stored row, scaled by the multiplier of its name
ScaledField(h, row, c) ==
    StringOfLong(Scaled(Hundredths[Columns(row)[c + 1]],
                        MULTIPLIERS[Entry(Columns(h)[c + 1])]))

RECURSIVE CommaJoined(_, _, _)
CommaJoined(h, row, c) ==
    IF c >= Len(Columns(h)) THEN <<>>
    ELSE ScaledField(h, row, c)
           \o (IF c + 1 < Len(Columns(h)) THEN <<",">> ELSE <<>>)
           \o CommaJoined(h, row, c + 1)

RECURSIVE RowSections(_, _, _)
RowSections(h, rows, i) ==
    IF i > Len(rows) THEN <<>>
    ELSE CommaJoined(h, rows[i], 3) \o <<":">> \o RowSections(h, rows, i + 1)

RECURSIVE Count(_, _)
Count(s, tok) ==
    IF Len(s) = 0 THEN 0
    ELSE (IF s[1] = tok THEN 1 ELSE 0) + Count(Tail(s), tok)

EndsWith(s, t) ==
    Len(s) >= Len(t) /\ SubSeq(s, Len(s) - Len(t) + 1, Len(s)) = t

StartsAt(s, pos, t) ==
    Len(s) >= pos + Len(t) - 1 /\ SubSeq(s, pos, pos + Len(t) - 1) = t

RECURSIVE SampledLetters(_, _)
SampledLetters(h, c) ==
    IF c >= Len(Columns(h)) THEN <<>>
    ELSE <<LETTERS[Entry(Columns(h)[c + 1])]>> \o SampledLetters(h, c + 1)

\* C5: for a header whose columns all resolve and N >= 1 stored rows the
\* message has 4 + N colons, ends with a colon, and ends with one section
\* per row, oldest first: the scaled values of columns 3.. joined by commas
\* and closed by a colon; also for headers of 3 columns.
C5_MessageFormat ==
    (Returned("prep_msg") /\ Resolves(myHeader) /\ Len(Batch) >= 1)
        => /\ Count(retMsg, ":") = 4 + Len(Batch)
           /\ retMsg[Len(retMsg)] = ":"
           /\ EndsWith(retMsg, RowSections(myHeader, Batch, 1))

\* C6: the letter prefix holds the letter of each column with index >= 3,
\* in header order, and of no other column.
C6_LettersOfSampledColumns ==
    (Returned("prep_msg") /\ Resolves(myHeader) /\ Len(Batch) >= 1)
        => StartsAt(retMsg, 1, SampledLetters(myHeader, 3) \o <<":">>)

\* C7: with a column name that is not in the dictionary prep_msg ends in a
\* schema-resolution error and returns no message.
C7_UnknownColumnIsAnError ==
    (lastOp = "prep_msg" /\ ~Resolves(myHeader))
        => (outcome = "error" /\ retMsg = <<>>)

\* C8: with no data row in /HOURLY.csv prep_msg ends in an empty-batch error
\* and returns no message.
C8_EmptyBatchIsAnError ==
    (lastOp = "prep_msg" /\ Len(Batch) = 0)
        => (outcome = "error" /\ retMsg = <<>>)

\* C9: for N >= 1 rows, the section that follows the letter codes and their
\* colon is the year (low digits), month, day and hour of the first row's
\* timestamp, 8 characters, closed by a colon; no later row contributes.
C9_TimestampOfFirstRow ==
    (Returned("prep_msg") /\ Len(Batch) >= 1)
        => LET n == Len(Columns(myHeader))
               t == Chars[Columns(Batch[1])[1]]
           IN  StartsAt(retMsg, n + 1,
                   <<":", t[3], t[4], t[6], t[7], t[9], t[10], t[12], t[13], ":">>)

\* a message built from two rows with different timestamps
C9_Witness ==
    /\ Returned("prep_msg")
    /\ Resolves(myHeader)
    /\ Len(Batch) >= 2
    /\ Count(retMsg, ":") = 4 + Len(Batch)
    /\ Columns(Batch[1])[1] # Columns(Batch[Len(Batch)])[1]
    /\ StartsAt(retMsg, Len(Columns(myHeader)) + 1,
           <<":", "0", "1", "0", "1", "1", "0", "0", "1", ":">>)

\* C10: for N >= 1 rows, the two sections after the timestamp are the battery
\* (column 1) and memory (column 2) values of the last row, each scaled by
\* the multiplier of its own column.
C10_MostRecentBatteryAndMemory ==
    (Returned("prep_msg") /\ Len(Batch) >= 1
        /\ Known(Columns(myHeader)[2]) /\ Known(Columns(myHeader)[3]))
        => LET last == Batch[Len(Batch)]
           IN  StartsAt(retMsg, Len(Columns(myHeader)) + 11,
                   ScaledField(myHeader, last, 1) \o <<":">>
                     \o ScaledField(myHeader, last, 2) \o <<":">>)

(***************************************************************************)
(* Storage: failed opens, read-only encoding, the header line.             *)
(***************************************************************************)
\* the step is a call of increment_samples whose SD.open failed
FailedIncrement ==
    /\ lastOp' = "increment_samples"
    /\ written'[TRACKING] = written[TRACKING]

\* C11: when the tracking file cannot be opened increment_samples returns
\* as usual, the card is left as it was and num_samples gives the same
\* value after the call as before it.
C11_FailedIncrementIsSwallowed ==
    [][ FailedIncrement
        => /\ outcome' = "void"
           /\ sd' = sd
           /\ num_samples(sd') = num_samples(sd) ]_vars

\* an increment that failed on a file already holding counts
C11_Witness ==
    /\ lastOp = "increment_samples"
    /\ TRACKING \in failed
    /\ rowsBefore[TRACKING] >= 1
    /\ RowCounts(sd)[TRACKING] = rowsBefore[TRACKING]

\* file f loses lines in the step
Shrinks(f) ==
    /\ sd[f].exists
    /\ (~sd'[f].exists \/ Len(sd'[f].lines) < Len(sd[f].lines))

\* C12: prep_msg leaves the three files as they were, so num_samples and
\* num_hours are what they were; lines disappear only in reset_hourly,
\* reset_sample_counter and wipe_files.
C12_PrepMsgOnlyReads ==
    /\ [][ lastOp' = "prep_msg"
            => /\ sd' = sd
               /\ num_samples(sd') = num_samples(sd)
               /\ num_hours(sd') = num_hours(sd) ]_vars
    /\ [][ (\E f \in Files : Shrinks(f))
            => lastOp' \in {"reset_hourly", "reset_sample_counter", "wipe_files"} ]_vars

\* a message was built from a queue with rows, all three files present
C12_Witness ==
    /\ Returned("prep_msg")
    /\ \A f \in Files : sd[f].exists
    /\ RowCounts(sd) = rowsBefore
    /\ num_hours(sd) >= 1

\* the header write_to_csv is called with for file f
HeaderOf(f) == IF f = TRACKING THEN <<"n">> ELSE myHeader

\* C13: a file that exists is its header line followed by the data lines of
\* the successful calls since its last removal, in call order; the header
\* is the first line and no other line.
C13_HeaderWrittenOnce ==
    \A f \in Files :
        sd[f].exists
            => /\ sd[f].lines = <<HeaderOf(f)>> \o written[f]
               /\ \A i \in 2..Len(sd[f].lines) : sd[f].lines[i] # HeaderOf(f)

\* a file with two data lines written around a failed open
C13_Witness ==
    \E f \in Files :
        /\ sd[f].exists
        /\ f \in failed
        /\ Len(written[f]) >= 2
        /\ Len(sd[f].lines) = 3

\* ---------------------------------------------------------------------------
\* Telemetry properties

\* the steps of irid_test, in the order the function takes them; sync_clock
\* starts with its query of the system time
PlannedSteps ==
    <<"begin", "getFirmwareVersion">> \o Repeat(SignalQueries, "getSignalQuality")
        \o <<"sendSBDText", "getSystemTime">>

Steps(log) ==
    SelectSeq(log, LAMBDA e : e.call \in {PlannedSteps[i] : i \in 1..Len(PlannedSteps)})

\* C14: irid_test takes its steps in the order begin, firmware version, ten
\* signal-quality queries, sendSBDText, sync_clock, and leaves at the first
\* step that failed: no step follows one that returned a failure, so the
\* message is sent only after begin, the version query and all the
\* signal-quality queries succeeded, and sync_clock never follows a failed send.
C14_LeavesOnFirstFailure ==
    lastOp = "irid_test" =>
        LET done == Steps(calls)
        IN  /\ Len(done) <= Len(PlannedSteps)
            /\ \A i \in 1..Len(done) : done[i].call = PlannedSteps[i]
            /\ \A i \in 1..(Len(done) - 1) : done[i].res = ISBD_SUCCESS

\* what does hold: the steps come in order, and everything up to and
\* including the send is reached only after all the steps before it succeeded
IridTestLeavesBeforeSend ==
    lastOp = "irid_test" =>
        LET done == Steps(calls)
        IN  /\ Len(done) <= Len(PlannedSteps)
            /\ \A i \in 1..Len(done) : done[i].call = PlannedSteps[i]
            /\ \A i \in 1..(Len(done) - 1) :
                   done[i].call # "sendSBDText" => done[i].res = ISBD_SUCCESS

\* irid_test with a failed send still goes on to sync_clock
IridTestSyncsAfterFailedSend ==
    /\ lastOp = "irid_test"
    /\ \E i \in 1..(Len(calls) - 1) :
           /\ calls[i].call = "sendSBDText" /\ calls[i].res # ISBD_SUCCESS
           /\ calls[i + 1].call = "getSystemTime"

ModemCalls == {"setPowerProfile", "begin", "sendSBDText", "getSystemTime"}

Attempts(log) == SelectSeq(log, LAMBDA e : e.call = "sendSBDText")

\* C15: send_msg raises the sleep pin before any modem call and lowers it
\* before it returns; it calls sendSBDText once or twice, the second time only
\* after the first failed; it returns the result of the last sendSBDText, so
\* it returns success exactly when one of the attempts succeeded.
C15_SendMsgRetriesOnce ==
    lastOp = "send_msg" =>
        LET sends == Attempts(calls)
        IN  /\ calls[1] = digitalWrite("HIGH")
            /\ \A i \in 1..Len(calls) :
                   calls[i].call \in ModemCalls
                       => \A k \in 1..i : calls[k] # digitalWrite("LOW")
            /\ calls[Len(calls)] = digitalWrite("LOW")
            /\ pin = "LOW"
            /\ Len(sends) \in {1, 2}
            /\ Len(sends) = 2 => sends[1].res # ISBD_SUCCESS
            /\ retErr = sends[Len(sends)].res
            /\ retErr = ISBD_SUCCESS
                   <=> \E i \in 1..Len(sends) : sends[i].res = ISBD_SUCCESS

\* a retry that succeeded, in a run that also synchronised the clock
C15_Witness ==
    /\ Returned("send_msg")
    /\ Len(Attempts(calls)) = 2
    /\ Attempts(calls)[1].res # ISBD_SUCCESS
    /\ retErr = ISBD_SUCCESS
    /\ \E i \in 1..Len(calls) : calls[i].call = "rtc.adjust"
    /\ pin = "LOW"

====
